---------------------------- MODULE Spec2Model ----------------------------
(***************************************************************************)
(* A model of public/posts/rain-paradox/rain-paradox.py.                   *)
(*                                                                         *)
(* The script computes "wetness" with Python numbers, so the model carries *)
(* Python's two numeric types as they are: int (arbitrary precision) and   *)
(* float (IEEE-754 binary64, round to nearest, ties to even).  Natural     *)
(* numbers of any size are sequences of 15-bit limbs, least significant    *)
(* first, because the integers of the model checker are 32 bits wide.      *)
(***************************************************************************)
EXTENDS Integers, Sequences, FiniteSets, TLC

-----------------------------------------------------------------------------
(* Arbitrary-precision naturals: <<>> is 0, no leading (high) zero limb.   *)

LimbBits == 15
Base == 2^LimbBits

Max(a, b) == IF a >= b THEN a ELSE b
Min(a, b) == IF a <= b THEN a ELSE b

RECURSIVE Norm(_)
Norm(a) ==
    IF a = <<>> THEN a
    ELSE IF a[Len(a)] = 0 THEN Norm(SubSeq(a, 1, Len(a) - 1))
    ELSE a

RECURSIVE BFromNat(_)
BFromNat(n) == IF n = 0 THEN <<>> ELSE <<n % Base>> \o BFromNat(n \div Base)

Limb(a, i) == IF i >= 1 /\ i <= Len(a) THEN a[i] ELSE 0

RECURSIVE AddC(_, _, _, _)
AddC(a, b, i, c) ==
    IF i > Len(a) /\ i > Len(b) THEN (IF c = 0 THEN <<>> ELSE <<c>>)
    ELSE LET x == Limb(a, i) + Limb(b, i) + c
         IN  <<x % Base>> \o AddC(a, b, i + 1, x \div Base)

BAdd(a, b) == AddC(a, b, 1, 0)

RECURSIVE SubB(_, _, _, _)
SubB(a, b, i, c) ==
    IF i > Len(a) THEN <<>>
    ELSE LET x == Limb(a, i) - Limb(b, i) - c
         IN  IF x < 0 THEN <<x + Base>> \o SubB(a, b, i + 1, 1)
             ELSE <<x>> \o SubB(a, b, i + 1, 0)

\* a - b for a >= b
BSub(a, b) == Norm(SubB(a, b, 1, 0))

RECURSIVE CmpFrom(_, _, _)
CmpFrom(a, b, i) ==
    IF i = 0 THEN 0
    ELSE IF a[i] < b[i] THEN -1
    ELSE IF a[i] > b[i] THEN 1
    ELSE CmpFrom(a, b, i - 1)

\* -1, 0, 1 as a < b, a = b, a > b
BCmp(a, b) ==
    IF Len(a) < Len(b) THEN -1
    ELSE IF Len(a) > Len(b) THEN 1
    ELSE CmpFrom(a, b, Len(a))

RECURSIVE MulLimbC(_, _, _, _)
MulLimbC(a, k, i, c) ==
    IF i > Len(a) THEN (IF c = 0 THEN <<>> ELSE <<c>>)
    ELSE LET x == a[i] * k + c
         IN  <<x % Base>> \o MulLimbC(a, k, i + 1, x \div Base)

\* a * k for a limb 0 <= k < Base
MulLimb(a, k) == IF k = 0 THEN <<>> ELSE MulLimbC(a, k, 1, 0)

RECURSIVE MulFrom(_, _, _)
MulFrom(a, b, j) ==
    IF j > Len(b) THEN <<>>
    ELSE LET r == MulFrom(a, b, j + 1)
         IN  BAdd(MulLimb(a, b[j]), IF r = <<>> THEN r ELSE <<0>> \o r)

BMul(a, b) == IF a = <<>> \/ b = <<>> THEN <<>> ELSE MulFrom(a, b, 1)

Zeros(n) == [i \in 1..n |-> 0]

\* a * 2^k
BShl(a, k) ==
    IF a = <<>> THEN a
    ELSE Zeros(k \div LimbBits) \o MulLimb(a, 2^(k % LimbBits))

\* floor(a / 2^k)
BShr(a, k) ==
    LET w == k \div LimbBits
        P == 2^(k % LimbBits)
        d == IF w >= Len(a) THEN <<>> ELSE SubSeq(a, w + 1, Len(a))
    IN  Norm([i \in 1..Len(d) |->
                (d[i] \div P) + (Limb(d, i + 1) % P) * (Base \div P)])

\* the number of bits of a limb x
LimbLen(x) == Cardinality({k \in 0..(LimbBits - 1) : 2^k <= x})

\* the number of bits of a (0 for 0)
BitLen(a) == IF a = <<>> THEN 0 ELSE LimbBits * (Len(a) - 1) + LimbLen(a[Len(a)])

\* bit i of a, the lowest being bit 0
Bit(a, i) == (Limb(a, i \div LimbBits + 1) \div 2^(i % LimbBits)) % 2

\* a mod 2^k = 0
LowZero(a, k) ==
    /\ \A i \in 1..Min(k \div LimbBits, Len(a)) : a[i] = 0
    /\ Limb(a, k \div LimbBits + 1) % 2^(k % LimbBits) = 0

BOne == <<1>>
BPow2(k) == BShl(BOne, k)

-----------------------------------------------------------------------------
(* Python numbers.  Every value is a record of one shape:                  *)
(*   int    t = "int",   c = "fin", the value (-1)^s * m       (e = 0)      *)
(*   float  t = "float", c = "fin", the value (-1)^s * m * 2^e, or          *)
(*                       c = "inf" (signed by s), or c = "nan"              *)
(*   a raised exception  t = "exc", c = the exception's class.              *)
(* A finite float is kept canonical, as the 64 bits of a double are: a     *)
(* normal number has 2^52 <= m < 2^53 and MinExp <= e <= MaxExp, a         *)
(* subnormal one has m < 2^52 and e = MinExp, and a zero has m = 0, e = 0. *)

MantBits == 53
MinExp == -1074
MaxExp == 971
QuotLimbs == 4

PyInt(s, n) == [t |-> "int", c |-> "fin", s |-> IF n = <<>> THEN 0 ELSE s, m |-> n, e |-> 0]
Fin(s, m, e) == [t |-> "float", c |-> "fin", s |-> s, m |-> m, e |-> IF m = <<>> THEN 0 ELSE e]
Inf(s) == [t |-> "float", c |-> "inf", s |-> s, m |-> <<>>, e |-> 0]
NaN == [t |-> "float", c |-> "nan", s |-> 0, m |-> <<>>, e |-> 0]
Raise(name) == [t |-> "exc", c |-> name, s |-> 0, m |-> <<>>, e |-> 0]

IsExc(x) == x.t = "exc"
IsInt(x) == x.t = "int"
IsFloat(x) == x.t = "float"
IsFinite(x) == x.t # "exc" /\ x.c = "fin"
IsNaN(x) == x.t = "float" /\ x.c = "nan"
IsInf(x) == x.t = "float" /\ x.c = "inf"
IsZero(x) == IsFinite(x) /\ x.m = <<>>

\* a Python int literal n >= 0, and its negation
I(n) == PyInt(0, BFromNat(n))
NegI(n) == PyInt(1, BFromNat(n))

Xor(a, b) == IF a = b THEN 0 ELSE 1

\* q, or q + 1 when the part cut off is above a half, or is a half and q
\* is odd (half: the first bit cut off; rest: something lies below it)
RoundQ(q, half, rest) ==
    IF half /\ (rest \/ Bit(q, 0) = 1) THEN BAdd(q, BOne) ELSE q

\* M / 2^sh rounded to the nearest integer, ties to even; sticky says that
\* the exact value lies above M by less than one unit of M.
RoundShift(M, sh, sticky) ==
    IF sh <= 0 THEN BShl(M, -sh)
    ELSE RoundQ(BShr(M, sh), Bit(M, sh - 1) = 1, sticky \/ ~LowZero(M, sh - 1))

\* The float of the rounded significand q <= 2^MantBits at exponent e: an
\* infinity when the value needs an exponent above MaxExp.
Pack(s, q, e) ==
    IF BitLen(q) > MantBits
    THEN (IF e + 1 > MaxExp THEN Inf(s) ELSE Fin(s, BShr(q, 1), e + 1))
    ELSE IF e > MaxExp THEN Inf(s) ELSE Fin(s, q, e)

RoundAt(s, M, E, sticky, e0) == Pack(s, RoundShift(M, e0 - E, sticky), e0)

\* The double nearest to (-1)^s * M * 2^E (ties to even).
MakeFloat(s, M, E, sticky) ==
    IF M = <<>> THEN Fin(s, <<>>, 0)
    ELSE RoundAt(s, M, E, sticky, Max(E + BitLen(M) - MantBits, MinExp))

\* Long division, one limb of the quotient a step (Knuth's algorithm D).
\* The top limb of the divisor is at least Base / 2, so the estimate est
\* from the top limbs exceeds the true limb by at most 2.
DivDigit(T, r, est) ==
    IF BCmp(MulLimb(T, est), r) <= 0 THEN est
    ELSE IF BCmp(MulLimb(T, est - 1), r) <= 0 THEN est - 1
    ELSE est - 2

DivOut(q, r, T, d) ==
    [q |-> IF q = <<>> /\ d = 0 THEN <<>> ELSE <<d>> \o q,
     r |-> BSub(r, MulLimb(T, d))]

\* one step: p is the quotient and remainder so far, T the divisor at this
\* limb, n the place of T's top limb, top that limb
DivAt(p, T, n, top) ==
    DivOut(p.q, p.r, T,
           DivDigit(T, p.r, Min((Limb(p.r, n + 1) * Base + Limb(p.r, n)) \div top,
                                Base - 1)))

\* the quotient q and the remainder r of N by D * Base^j, for a quotient
\* below Base^(QuotLimbs - j)
RECURSIVE DivStep(_, _, _)
DivStep(N, D, j) ==
    IF j >= QuotLimbs THEN [q |-> <<>>, r |-> N]
    ELSE DivAt(DivStep(N, D, j + 1), Zeros(j) \o D, Len(D) + j, D[Len(D)])

\* the shift that brings the top bit of b to the top of a limb
DivNorm(b) == (LimbBits - (BitLen(b) % LimbBits)) % LimbBits

DivRes(d, k, lost) == [q |-> d.q, k |-> k, st |-> lost \/ d.r # <<>>]

\* floor(a * 2^k / b): for k < 0 the low -k bits of a are dropped before
\* the division, which leaves the quotient as it is, and count as remainder.
DivAtShift(a, b, k, sh) ==
    DivRes(DivStep(BShl(IF k >= 0 THEN BShl(a, k) ELSE BShr(a, -k), sh),
                   BShl(b, sh), 0),
           k, k < 0 /\ ~LowZero(a, -k))

DivWith(a, b, k) == DivAtShift(a, b, k, DivNorm(b))

\* For a, b > 0: q = floor(a * 2^k / b) with k chosen so that q has 55 or
\* 56 bits (two more than a double keeps, so that rounding q is rounding
\* the exact quotient), and st = (the division left a remainder).
DivQ(a, b) == DivWith(a, b, MantBits + 2 + BitLen(b) - BitLen(a))

DivPack(s, d, E) == MakeFloat(s, d.q, E - d.k, d.st)

\* The exact quotient of two nonzero finite values, rounded once.
DivRound(x, y) == DivPack(Xor(x.s, y.s), DivQ(x.m, y.m), x.e - y.e)

Overflowing(f) == IF IsInf(f) THEN Raise("OverflowError") ELSE f

\* float(x) for an int x: the nearest double, OverflowError beyond the range
ToFloat(x) == IF ~IsInt(x) THEN x ELSE Overflowing(MakeFloat(x.s, x.m, 0, FALSE))

FMul(x, y) ==
    IF IsNaN(x) \/ IsNaN(y) THEN NaN
    ELSE IF IsInf(x) \/ IsInf(y)
         THEN (IF IsZero(x) \/ IsZero(y) THEN NaN ELSE Inf(Xor(x.s, y.s)))
    ELSE MakeFloat(Xor(x.s, y.s), BMul(x.m, y.m), x.e + y.e, FALSE)

\* x / y for floats, y not a zero
FDiv(x, y) ==
    IF IsNaN(x) \/ IsNaN(y) THEN NaN
    ELSE IF IsInf(x) THEN (IF IsInf(y) THEN NaN ELSE Inf(Xor(x.s, y.s)))
    ELSE IF IsInf(y) \/ IsZero(x) THEN Fin(Xor(x.s, y.s), <<>>, 0)
    ELSE DivRound(x, y)

\* 2^Top(x) is the least power of two above the nonzero finite |x|.
Top(x) == BitLen(x.m) + x.e

\* the sign and the size of (-1)^sx * X + (-1)^sy * Y; an exact zero is +0
SumSign(sx, X, sy, Y) ==
    IF sx = sy THEN sx
    ELSE IF BCmp(X, Y) = 0 THEN 0
    ELSE IF BCmp(X, Y) > 0 THEN sx ELSE sy

SumMag(sx, X, sy, Y) ==
    IF sx = sy THEN BAdd(X, Y)
    ELSE IF BCmp(X, Y) >= 0 THEN BSub(X, Y) ELSE BSub(Y, X)

AddAligned(sx, X, sy, Y, E) ==
    MakeFloat(SumSign(sx, X, sy, Y), SumMag(sx, X, sy, Y), E, FALSE)

AddAt(x, y, E) == AddAligned(x.s, BShl(x.m, x.e - E), y.s, BShl(y.m, y.e - E), E)

\* The exact sum of two nonzero finite values, rounded once.  A term below
\* an eighth of the other's unit in the last place cannot move the rounded
\* sum, so the other term is the result, as it is in the hardware.
AddRound(x, y) ==
    IF Top(y) < x.e - 2 THEN x
    ELSE IF Top(x) < y.e - 2 THEN y
    ELSE AddAt(x, y, Min(x.e, y.e))

FAdd(x, y) ==
    IF IsNaN(x) \/ IsNaN(y) THEN NaN
    ELSE IF IsInf(x) THEN (IF IsInf(y) /\ x.s # y.s THEN NaN ELSE x)
    ELSE IF IsInf(y) THEN y
    ELSE IF IsZero(x) /\ IsZero(y) THEN Fin(IF x.s = 1 /\ y.s = 1 THEN 1 ELSE 0, <<>>, 0)
    ELSE IF IsZero(x) THEN y
    ELSE IF IsZero(y) THEN x
    ELSE AddRound(x, y)

FNeg(x) == IF IsNaN(x) THEN x ELSE [x EXCEPT !.s = 1 - x.s]
FSub(x, y) == FAdd(x, FNeg(y))

\* a / b for floats; an operand that could not become a float is the
\* exception its conversion raised, and the left one is converted first
DivF(a, b) ==
    IF IsExc(a) THEN a
    ELSE IF IsExc(b) THEN b
    ELSE IF IsZero(b) THEN Raise("ZeroDivisionError")
    ELSE FDiv(a, b)

MulF(a, b) == IF IsExc(a) THEN a ELSE IF IsExc(b) THEN b ELSE FMul(a, b)
AddF(a, b) == IF IsExc(a) THEN a ELSE IF IsExc(b) THEN b ELSE FAdd(a, b)

\* Python's  x / y  (of two ints: the exact quotient, rounded once)
TrueDiv(x, y) ==
    IF IsInt(x) /\ IsInt(y)
    THEN IF y.m = <<>> THEN Raise("ZeroDivisionError")
         ELSE IF x.m = <<>> THEN Fin(Xor(x.s, y.s), <<>>, 0)
         ELSE Overflowing(DivRound(x, y))
    ELSE DivF(ToFloat(x), ToFloat(y))

\* Python's  x * y
Mul(x, y) ==
    IF IsInt(x) /\ IsInt(y) THEN PyInt(Xor(x.s, y.s), BMul(x.m, y.m))
    ELSE MulF(ToFloat(x), ToFloat(y))

\* Python's  x + y
Add(x, y) ==
    IF IsInt(x) /\ IsInt(y)
    THEN PyInt(SumSign(x.s, x.m, y.s, y.m), SumMag(x.s, x.m, y.s, y.m))
    ELSE AddF(ToFloat(x), ToFloat(y))

\* The order of two numbers (neither an exception), compared exactly as
\* Python compares an int with a float: "lt", "eq", "gt", or "un" when one
\* is a NaN.
Sgn(x) == IF IsZero(x) THEN 0 ELSE IF x.s = 1 THEN -1 ELSE 1

MagCmp(x, y) ==
    LET E == Min(x.e, y.e)
    IN  IF Top(x) # Top(y)
        THEN (IF Top(x) < Top(y) THEN -1 ELSE 1)
        ELSE BCmp(BShl(x.m, x.e - E), BShl(y.m, y.e - E))

Cmp(x, y) ==
    IF IsNaN(x) \/ IsNaN(y) THEN "un"
    ELSE IF Sgn(x) # Sgn(y) THEN (IF Sgn(x) < Sgn(y) THEN "lt" ELSE "gt")
    ELSE IF Sgn(x) = 0 THEN "eq"
    ELSE LET c == IF IsInf(x) THEN (IF IsInf(y) THEN 0 ELSE 1)
                  ELSE IF IsInf(y) THEN -1
                  ELSE MagCmp(x, y)
             d == IF Sgn(x) < 0 THEN -c ELSE c
         IN  IF d < 0 THEN "lt" ELSE IF d > 0 THEN "gt" ELSE "eq"

Lt(x, y) == Cmp(x, y) = "lt"
Le(x, y) == Cmp(x, y) \in {"lt", "eq"}
Gt(x, y) == Cmp(x, y) = "gt"
Ge(x, y) == Cmp(x, y) \in {"gt", "eq"}
Eq(x, y) == Cmp(x, y) = "eq"

\* int(x): truncation toward zero
PyIntOf(x) ==
    IF IsExc(x) \/ IsInt(x) THEN x
    ELSE IF IsNaN(x) THEN Raise("ValueError")
    ELSE IF IsInf(x) THEN Raise("OverflowError")
    ELSE PyInt(x.s, IF x.e >= 0 THEN BShl(x.m, x.e) ELSE BShr(x.m, -x.e))

\* The quotient q and the remainder r of a by a limb k > 0.
RECURSIVE DivSmallFrom(_, _, _)
DivSmallFrom(a, k, i) ==
    IF i > Len(a) THEN [q |-> <<>>, r |-> 0]
    ELSE LET p == DivSmallFrom(a, k, i + 1)
             x == p.r * Base + a[i]
         IN  [q |-> <<x \div k>> \o p.q, r |-> x % k]

DivSmall(a, k) == LET d == DivSmallFrom(a, k, 1) IN [q |-> Norm(d.q), r |-> d.r]

Digit == <<"0", "1", "2", "3", "4", "5", "6", "7", "8", "9">>

RECURSIVE DecStr(_)
DecStr(n) ==
    IF n = <<>> THEN ""
    ELSE LET d == DivSmall(n, 10) IN DecStr(d.q) \o Digit[d.r + 1]

\* the decimal digits of a natural number
NatStr(n) == IF n = <<>> THEN "0" ELSE DecStr(n)

\* str(x) of an int, as an f-string prints {x}
Str(x) == (IF x.s = 1 THEN "-" ELSE "") \o NatStr(x.m)

\* An f-string's {x:.1f} for a float: the decimal with one digit after the
\* point nearest to the exact value of x, ties to the even digit.
Fmt1f(x) ==
    IF IsNaN(x) THEN "nan"
    ELSE IF IsInf(x) THEN (IF x.s = 1 THEN "-inf" ELSE "inf")
    ELSE LET tenths == RoundShift(MulLimb(x.m, 10), -x.e, FALSE)
             d == DivSmall(tenths, 10)
         IN  (IF x.s = 1 THEN "-" ELSE "") \o NatStr(d.q) \o "." \o Digit[d.r + 1]

-----------------------------------------------------------------------------
(* rain-paradox.py                                                         *)

\* Human body dimensions, in feet.
height == TrueDiv(I(70), I(12))
width == TrueDiv(I(20), I(12))
depth == TrueDiv(I(12), I(12))

\* the defaults of simulate_wetness's parameters
default_distance_ft == I(500)
default_rain_density == I(1000)

\* Variants of line 22, as a slip or a well-meant change would leave it:
\* the quotient replaced by a product, zero speed answered with an infinite
\* time instead of a fault, and the speed taken without its sign.
FAbs(x) == IF IsExc(x) \/ IsNaN(x) THEN x ELSE [x EXCEPT !.s = 0]

time_in_rain_product(speed_ft_s, distance_ft) == Mul(distance_ft, speed_ft_s)

time_in_rain_guarded(speed_ft_s, distance_ft) ==
    IF ~IsExc(speed_ft_s) /\ Eq(speed_ft_s, I(0))
    THEN Inf(0)
    ELSE TrueDiv(distance_ft, speed_ft_s)

time_in_rain_abs(speed_ft_s, distance_ft) ==
    TrueDiv(distance_ft, FAbs(speed_ft_s))

\* Time exposed to rain (in seconds).
time_in_rain(speed_ft_s, distance_ft) == TrueDiv(distance_ft, speed_ft_s)

\* Surface areas exposed.
top_area == Mul(width, depth)
front_area == Mul(height, width)

\* Rain impact.
rain_from_above(speed_ft_s, distance_ft, rain_density) ==
    Mul(Mul(rain_density, top_area), time_in_rain(speed_ft_s, distance_ft))

\* Variants of line 30: the top area in place of the front area, and the
\* default density in place of the argument.
rain_from_front_top(distance_ft, rain_density) ==
    Mul(Mul(rain_density, top_area), distance_ft)

rain_from_front_fixed_density(distance_ft, rain_density) ==
    Mul(Mul(default_rain_density, front_area), distance_ft)

rain_from_front(distance_ft, rain_density) ==
    Mul(Mul(rain_density, front_area), distance_ft)

\* Variants of lines 22-33: the front term subtracted, the front term
\* alone, and the front term taken over the time in the rain.
Outcome(t, above, front, total) ==
    IF IsExc(t) THEN t
    ELSE IF IsExc(above) THEN above
    ELSE IF IsExc(front) THEN front
    ELSE total

simulate_wetness_minus(speed_ft_s, distance_ft, rain_density) ==
    Outcome(time_in_rain(speed_ft_s, distance_ft),
            rain_from_above(speed_ft_s, distance_ft, rain_density),
            rain_from_front(distance_ft, rain_density),
            FSub(ToFloat(rain_from_above(speed_ft_s, distance_ft, rain_density)),
                 ToFloat(rain_from_front(distance_ft, rain_density))))

simulate_wetness_front_only(speed_ft_s, distance_ft, rain_density) ==
    Outcome(time_in_rain(speed_ft_s, distance_ft),
            rain_from_above(speed_ft_s, distance_ft, rain_density),
            rain_from_front(distance_ft, rain_density),
            rain_from_front(distance_ft, rain_density))

simulate_wetness_front_by_time(speed_ft_s, distance_ft, rain_density) ==
    Outcome(time_in_rain(speed_ft_s, distance_ft),
            rain_from_above(speed_ft_s, distance_ft, rain_density),
            Mul(Mul(rain_density, front_area), time_in_rain(speed_ft_s, distance_ft)),
            Add(rain_from_above(speed_ft_s, distance_ft, rain_density),
                Mul(Mul(rain_density, front_area),
                    time_in_rain(speed_ft_s, distance_ft))))

\* What a call ends with: the value returned, or the exception raised by
\* the first statement that raises one.
simulate_wetness(speed_ft_s, distance_ft, rain_density) ==
    LET t == time_in_rain(speed_ft_s, distance_ft)
        above == rain_from_above(speed_ft_s, distance_ft, rain_density)
        front == rain_from_front(distance_ft, rain_density)
    IN  IF IsExc(t) THEN t
        ELSE IF IsExc(above) THEN above
        ELSE IF IsExc(front) THEN front
        ELSE Add(above, front)

\* The calls plot_wetness_vs_speed makes into matplotlib.pyplot, in order.
PltCall(f, args) == [f |-> f, args |-> args]

\* A variant of line 49: the two sequences handed to plt.plot in the wrong
\* order.
plot_wetness_vs_speed_swapped(xs, ys) ==
    << PltCall("figure", <<"figsize", "8", "5">>),
       PltCall("plot", <<ys, xs, "marker=o", "linestyle=-", "color=blue">>),
       PltCall("title", <<"Wetness vs. Speed in Rain">>),
       PltCall("xlabel", <<"Speed (feet per second)">>),
       PltCall("ylabel", <<"Total Raindrops Hit">>),
       PltCall("grid", <<"True">>),
       PltCall("xticks", <<xs>>),
       PltCall("tight_layout", <<>>),
       PltCall("show", <<>>) >>

plot_wetness_vs_speed(xs, ys) ==
    << PltCall("figure", <<"figsize", "8", "5">>),
       PltCall("plot", <<xs, ys, "marker=o", "linestyle=-", "color=blue">>),
       PltCall("title", <<"Wetness vs. Speed in Rain">>),
       PltCall("xlabel", <<"Speed (feet per second)">>),
       PltCall("ylabel", <<"Total Raindrops Hit">>),
       PltCall("grid", <<"True">>),
       PltCall("xticks", <<xs>>),
       PltCall("tight_layout", <<>>),
       PltCall("show", <<>>) >>

\* A float literal with one digit after the point: the double nearest to
\* tenths / 10.
Lit1(tenths) == TrueDiv(I(tenths), I(10))

\* the list of speeds of the script, in feet per second
script_speeds == <<Lit1(33), Lit1(55), Lit1(88), Lit1(132), Lit1(300)>>

\* A variant of line 79: round(wetness) in place of int(wetness).
PyRound(x) ==
    IF IsExc(x) \/ IsInt(x) THEN x
    ELSE IF IsNaN(x) THEN Raise("ValueError")
    ELSE IF IsInf(x) THEN Raise("OverflowError")
    ELSE PyInt(x.s, RoundShift(x.m, -x.e, FALSE))

print_line_rounded(speed, wetness) ==
    IF IsExc(PyRound(wetness)) THEN PyRound(wetness)
    ELSE "Speed: " \o Fmt1f(speed) \o " ft/s -> Wetness: "
         \o Str(PyRound(wetness)) \o " drops"

\* the line the script prints for one speed and its wetness; an exception
\* when int(wetness) raises one
print_line(speed, wetness) ==
    LET n == PyIntOf(wetness)
    IN  IF IsExc(n) THEN n
        ELSE "Speed: " \o Fmt1f(speed) \o " ft/s -> Wetness: " \o Str(n) \o " drops"

-----------------------------------------------------------------------------
(* The arguments a caller may pass.  Ints and floats both occur, as the    *)
(* defaults 500 and 1000 are ints and the script's speeds are floats.      *)

MaxSmall == 2

F(n) == ToFloat(I(n))
Tiny == Fin(0, BOne, MinExp)                  \* 5e-324, the least double
Huge == ToFloat(PyInt(0, BPow2(1023)))        \* 2.0 ** 1023
Next33 == Fin(0, BAdd(Lit1(33).m, BOne), Lit1(33).e)   \* the double after 3.3
TooBig == PyInt(0, BPow2(1024))               \* 2 ** 1024, beyond every double

SmallInts == {I(n) : n \in 0..MaxSmall}

Speeds ==
    {I(0), F(0), FNeg(F(0)), I(1), Next33, Tiny, Inf(0), NaN,
     FNeg(F(1)), TrueDiv(NegI(12), I(70)), TrueDiv(NegI(1), I(8)), FNeg(Huge)}
    \cup {script_speeds[k] : k \in 1..Len(script_speeds)}

Distances == SmallInts \cup {default_distance_ft, Huge, Tiny, NegI(1), TooBig}

Densities == SmallInts \cup {default_rain_density, Huge, TooBig}

-----------------------------------------------------------------------------
(* The program.  The file is either run as a script (name = "__main__"),   *)
(* and then runs lines 71-82, or imported, and then a caller calls         *)
(* simulate_wetness once with arguments of its own, outside any try.       *)

VARIABLES
    name,            \* __name__
    pc,              \* the line to run next; "exit" once the process ended
    speed_ft_s,      \* the arguments of the latest call of simulate_wetness
    distance_ft,
    rain_density,
    ret,             \* what that call returned or raised (None before it)
    speeds,          \* the script's list of speeds
    wetness_values,  \* the script's list of wetness values, as built so far
    stdout,          \* the lines printed
    plt,             \* the calls made into matplotlib.pyplot
    status           \* the exit status of the process (None while it runs)

vars == <<name, pc, speed_ft_s, distance_ft, rain_density, ret, speeds,
          wetness_values, stdout, plt, status>>

None == [t |-> "none", c |-> "fin", s |-> 0, m |-> <<>>, e |-> 0]

Init ==
    /\ ret = None
    /\ speeds = <<>>
    /\ wetness_values = <<>>
    /\ stdout = <<>>
    /\ plt = <<>>
    /\ status = None
    /\ \/ /\ name = "__main__"
          /\ pc = "line71"
          /\ speed_ft_s = None
          /\ distance_ft = None
          /\ rain_density = None
       \/ /\ name = "imported"
          /\ pc = "call"
          /\ speed_ft_s \in Speeds
          /\ distance_ft \in Distances
          /\ rain_density \in Densities

\* An exception no handler catches ends the process with status 1.
Uncaught == /\ pc' = "exit"
            /\ status' = I(1)

\* line 71: speeds = [3.3, 5.5, 8.8, 13.2, 30.0]
Line71 ==
    /\ name = "__main__"
    /\ pc = "line71"
    /\ speeds' = script_speeds
    /\ pc' = "line74"
    /\ UNCHANGED <<name, speed_ft_s, distance_ft, rain_density, ret,
                   wetness_values, stdout, plt, status>>

\* line 74: one turn of [simulate_wetness(speed) for speed in speeds]
Line74 ==
    /\ name = "__main__"
    /\ pc = "line74"
    /\ LET speed == speeds[Len(wetness_values) + 1]
           w == simulate_wetness(speed, default_distance_ft, default_rain_density)
       IN  /\ speed_ft_s' = speed
           /\ distance_ft' = default_distance_ft
           /\ rain_density' = default_rain_density
           /\ ret' = w
           /\ IF IsExc(w)
              THEN Uncaught /\ UNCHANGED wetness_values
              ELSE /\ wetness_values' = Append(wetness_values, w)
                   /\ pc' = IF Len(wetness_values) + 1 = Len(speeds)
                            THEN "line79" ELSE "line74"
                   /\ UNCHANGED status
    /\ UNCHANGED <<name, speeds, stdout, plt>>

\* lines 77-79: one turn of the loop over zip(speeds, wetness_values)
Line79 ==
    /\ name = "__main__"
    /\ pc = "line79"
    /\ LET k == Len(stdout) + 1
           line == print_line(speeds[k], wetness_values[k])
       IN  IF line \in STRING
           THEN /\ stdout' = Append(stdout, line)
                /\ pc' = IF k = Min(Len(speeds), Len(wetness_values))
                         THEN "line82" ELSE "line79"
                /\ UNCHANGED status
           ELSE Uncaught /\ UNCHANGED stdout
    /\ UNCHANGED <<name, speed_ft_s, distance_ft, rain_density, ret, speeds,
                   wetness_values, plt>>

\* line 82: plot_wetness_vs_speed(speeds, wetness_values), then the end of
\* the file
Line82 ==
    /\ name = "__main__"
    /\ pc = "line82"
    /\ plt' = plt \o plot_wetness_vs_speed(speeds, wetness_values)
    /\ pc' = "exit"
    /\ status' = I(0)
    /\ UNCHANGED <<name, speed_ft_s, distance_ft, rain_density, ret, speeds,
                   wetness_values, stdout>>

\* a caller's simulate_wetness(speed_ft_s, distance_ft, rain_density)
Call ==
    /\ name = "imported"
    /\ pc = "call"
    /\ ret' = simulate_wetness(speed_ft_s, distance_ft, rain_density)
    /\ IF IsExc(ret')
       THEN Uncaught
       ELSE pc' = "returned" /\ UNCHANGED status
    /\ UNCHANGED <<name, speed_ft_s, distance_ft, rain_density, speeds,
                   wetness_values, stdout, plt>>

Next == Line71 \/ Line74 \/ Line79 \/ Line82 \/ Call

Spec == Init /\ [][Next]_vars

-----------------------------------------------------------------------------
(* Properties.                                                             *)

\* a call of simulate_wetness has ended, and it has returned a value
Called == ret # None
Returned == ret # None /\ ~IsExc(ret)

\* speed != 0, speed > 0 and the like, as Python decides them
NonZero(x) == ~Eq(x, I(0))
Positive(x) == Gt(x, I(0))
NonNegative(x) == Ge(x, I(0))
Negative(x) == Lt(x, I(0))

Defaults == distance_ft = default_distance_ft /\ rain_density = default_rain_density

\* The expression of the docstring's model, written out with Python's
\* operators: r * (w * dp) * (d / s) + r * (h * w) * d.
Formula(s, d, r) ==
    Add(Mul(Mul(r, Mul(TrueDiv(I(20), I(12)), TrueDiv(I(12), I(12)))),
            TrueDiv(d, s)),
        Mul(Mul(r, Mul(TrueDiv(I(70), I(12)), TrueDiv(I(20), I(12)))), d))

\* 1000*(20/12*12/12)*(500/3.3) + 1000*(70/12*20/12)*500, as Python parses it
Formula33 ==
    Add(Mul(Mul(I(1000), TrueDiv(Mul(TrueDiv(I(20), I(12)), I(12)), I(12))),
            TrueDiv(I(500), Lit1(33))),
        Mul(Mul(I(1000), TrueDiv(Mul(TrueDiv(I(70), I(12)), I(20)), I(12))),
            I(500)))

\* C1: for every speed != 0 a call of simulate_wetness ends with exactly the
\* value of rain_density*(width*depth)*(distance/speed) +
\* rain_density*(height*width)*distance, where height = 70/12, width = 20/12
\* and depth = 12/12; simulate_wetness(3.3) with the defaults is
\* 1000*(20/12*12/12)*(500/3.3) + 1000*(70/12*20/12)*500.
C1_ExactFormula ==
    (Called /\ NonZero(speed_ft_s)) =>
        /\ ret = Formula(speed_ft_s, distance_ft, rain_density)
        /\ (speed_ft_s = Lit1(33) /\ Defaults) => ret = Formula33

C1_Witness ==
    /\ pc = "returned"
    /\ speed_ft_s = Lit1(33)
    /\ Defaults
    /\ IsFinite(ret)
    /\ PyIntOf(ret) = I(5113636)

\* the five lines the script prints
ScriptLines ==
    << "Speed: 3.3 ft/s -> Wetness: 5113636 drops",
       "Speed: 5.5 ft/s -> Wetness: 5012626 drops",
       "Speed: 8.8 ft/s -> Wetness: 4955808 drops",
       "Speed: 13.2 ft/s -> Wetness: 4924242 drops",
       "Speed: 30.0 ft/s -> Wetness: 4888888 drops" >>

\* C6: run as a script, the program prints exactly five lines, one for each
\* of the speeds 3.3, 5.5, 8.8, 13.2, 30.0 in this order, each the speed with
\* one decimal and the wetness truncated to an integer, and the integers
\* strictly decrease from one line to the next.
C6_ScriptOutput ==
    name = "__main__" =>
        /\ stdout = SubSeq(ScriptLines, 1, Len(stdout))
        /\ pc \in {"line82", "exit"} => stdout = ScriptLines
        /\ \A k \in 1..Len(stdout) :
              /\ Fmt1f(speeds[k]) = <<"3.3", "5.5", "8.8", "13.2", "30.0">>[k]
              /\ stdout[k] =
                    "Speed: " \o Fmt1f(speeds[k]) \o " ft/s -> Wetness: "
                    \o Str(PyIntOf(simulate_wetness(speeds[k], I(500), I(1000))))
                    \o " drops"
              /\ k > 1 => Gt(PyIntOf(wetness_values[k - 1]),
                             PyIntOf(wetness_values[k]))
        /\ stdout = ScriptLines =>
              Lt(PyIntOf(wetness_values[5]), PyIntOf(wetness_values[1]))

C6_Witness ==
    /\ name = "__main__"
    /\ pc = "exit"
    /\ Len(stdout) = Len(script_speeds)
    /\ stdout[1] = "Speed: 3.3 ft/s -> Wetness: 5113636 drops"

\* C8: run as a script, the program calls simulate_wetness for all five
\* speeds, in the order of the list, before it prints the first line, prints
\* all five lines before it calls the renderer, calls the renderer once, with
\* the whole list of speeds and a list of wetness values of the same length,
\* and ends after that call.
C8_ScriptOrder ==
    name = "__main__" =>
        /\ \A k \in 1..Len(wetness_values) :
              wetness_values[k] =
                  simulate_wetness(script_speeds[k], I(500), I(1000))
        /\ stdout # <<>> => Len(wetness_values) = Len(ScriptLines)
        /\ plt # <<>> =>
              /\ Len(stdout) = Len(ScriptLines)
              /\ Cardinality({k \in 1..Len(plt) : plt[k].f = "plot"}) = 1
              /\ Cardinality({k \in 1..Len(plt) : plt[k].f = "show"}) = 1
              /\ plt[2].f = "plot"
              /\ plt[2].args[1] = speeds
              /\ plt[2].args[2] = wetness_values
              /\ Len(plt[2].args[1]) = Len(ScriptLines)
              /\ Len(plt[2].args[2]) = Len(plt[2].args[1])
              /\ pc = "exit"
              /\ status = I(0)
              /\ ~ENABLED Next
        /\ pc = "exit" => plt # <<>>

C8_Witness ==
    /\ name = "__main__"
    /\ pc = "exit"
    /\ Len(wetness_values) = Len(script_speeds)
    /\ Len(stdout) = Len(script_speeds)
    /\ plt # <<>>
    /\ plt[Len(plt)].f = "show"

\* speed > 0, distance >= 0 and rain_density >= 0 in a call that returned
PhysicalCall ==
    /\ Returned
    /\ Positive(speed_ft_s)
    /\ NonNegative(distance_ft)
    /\ NonNegative(rain_density)

\* the quotient, a product or an argument of the call is infinite
SomeInfinite(s, d, r) ==
    \/ IsInf(s) \/ IsInf(d) \/ IsInf(r)
    \/ IsInf(time_in_rain(s, d))
    \/ IsInf(Mul(r, top_area))
    \/ IsInf(Mul(r, front_area))

\* C2 as stated: for every speed > 0, distance >= 0 and rain_density >= 0
\* simulate_wetness returns a value >= 0.
C2_Original == PhysicalCall => Ge(ret, I(0))

\* C2: for every speed > 0, distance >= 0 and rain_density >= 0
\* simulate_wetness returns a value that is never negative: it is >= 0, or
\* it is NaN, and NaN only when the quotient, a product or an argument is
\* infinite (an infinity met a zero).
C2_NeverNegative ==
    PhysicalCall =>
        \/ Ge(ret, I(0))
        \/ IsNaN(ret) /\ SomeInfinite(speed_ft_s, distance_ft, rain_density)

C2_Witness ==
    /\ PhysicalCall
    /\ pc = "returned"
    /\ IsFinite(ret)
    /\ Gt(ret, I(0))
    /\ rain_density = I(1)

\* the call's speed is the lower of two speeds a < b
Slower(b) == Lt(speed_ft_s, b)

\* what the call returns at speed b, everything else the same
At(b) == simulate_wetness(b, distance_ft, rain_density)

\* C3 as stated: for 0 < a < b, distance >= 0 and rain_density >= 0, the
\* wetness at a is >= the wetness at b.
C3_Original ==
    PhysicalCall => \A b \in Speeds : Slower(b) => Ge(ret, At(b))

\* C3: for 0 < a < b, distance >= 0 and rain_density >= 0, the wetness at a
\* is >= the wetness at b whenever neither of the two is NaN.
C3_NonIncreasing ==
    (PhysicalCall /\ ~IsNaN(ret)) =>
        \A b \in Speeds :
            Slower(b) => LET wb == At(b) IN ~IsNaN(wb) => Ge(ret, wb)

C3_Witness ==
    /\ PhysicalCall
    /\ Slower(Lit1(55))
    /\ pc = "returned"
    /\ speed_ft_s = Lit1(33)
    /\ Defaults
    /\ Gt(ret, At(Lit1(55)))

\* one unit in the last place of a finite, nonzero double
Ulp(x) == Fin(0, BOne, x.e)

\* the rain from above at speed a less that at speed b, as a double
AboveGap(a, b, d, r) ==
    FSub(rain_from_above(a, d, r), rain_from_above(b, d, r))

\* C4 as stated: for 0 < a < b, distance >= 0 and rain_density >= 0, the
\* wetness at a is strictly greater than the wetness at b.
C4_Original ==
    PhysicalCall => \A b \in Speeds : Slower(b) => Gt(ret, At(b))

\* C4: for 0 < a < b with distance > 0 and rain_density > 0 and finite
\* results, the wetness at a is strictly greater than the wetness at b
\* whenever the rain from above at a exceeds that at b by more than one unit
\* in the last place of the wetness at a; for distance = 0 or
\* rain_density = 0 the two are equal (unless one is NaN).
C4_StrictUpToRounding ==
    (PhysicalCall /\ ~IsNaN(ret)) =>
        \A b \in Speeds :
            Slower(b) =>
                LET wb == At(b)
                IN  /\ ( /\ Positive(distance_ft) /\ Positive(rain_density)
                         /\ IsFinite(ret) /\ ~IsZero(ret) /\ IsFinite(wb)
                         /\ Gt(AboveGap(speed_ft_s, b, distance_ft, rain_density),
                               Ulp(ret)) )
                       => Gt(ret, wb)
                    /\ ( /\ IsZero(distance_ft) \/ IsZero(rain_density)
                         /\ ~IsNaN(wb) )
                       => Eq(ret, wb)

C4_Witness ==
    /\ PhysicalCall
    /\ Slower(Lit1(300))
    /\ pc = "returned"
    /\ speed_ft_s = Lit1(132)
    /\ Defaults
    /\ Gt(AboveGap(speed_ft_s, Lit1(300), distance_ft, rain_density), Ulp(ret))
    /\ Gt(ret, At(Lit1(300)))

\* x is zero or 2^-100 <= |x| < 2^100: no product or quotient of the call
\* overflows or underflows when its three arguments are of this kind
Moderate(x) ==
    /\ IsInt(x) \/ IsFloat(x)
    /\ IsFinite(x)
    /\ IsZero(x) \/ (Top(x) >= -99 /\ Top(x) <= 100)

ModerateCall ==
    Moderate(speed_ft_s) /\ Moderate(distance_ft) /\ Moderate(rain_density)

\* |x - y| for finite x and y, exactly: the significand m at exponent e
Dist(x, y) ==
    [m |-> SumMag(x.s, BShl(x.m, x.e - Min(x.e, y.e)),
                  1 - y.s, BShl(y.m, y.e - Min(x.e, y.e))),
     e |-> Min(x.e, y.e)]

ScaledLe(D, k, M) ==
    \/ D.m = <<>>
    \/ M.m # <<>> /\ MagCmp([m |-> D.m, e |-> D.e + k], M) <= 0

\* |x - y| * 2^k <= |M|, exactly
Close(x, y, k, M) ==
    /\ IsFinite(x) /\ IsFinite(y) /\ IsFinite(M)
    /\ ScaledLe(Dist(x, y), k, M)

\* rain_density * simulate_wetness(speed, distance, 1)
Scaled(s, d, r) == Mul(r, simulate_wetness(s, d, I(1)))

\* C5 as stated: for speed > 0, distance >= 0 and rain_density >= 0,
\* simulate_wetness(speed, distance, rain_density) equals
\* rain_density * simulate_wetness(speed, distance, 1).
C5_Original ==
    PhysicalCall => Eq(ret, Scaled(speed_ft_s, distance_ft, rain_density))

\* C5: for speed > 0, distance >= 0 and rain_density >= 0, each zero or of a
\* magnitude between 2^-100 and 2^100, simulate_wetness(speed, distance,
\* rain_density) and rain_density * simulate_wetness(speed, distance, 1)
\* agree up to rounding: they differ by at most 2^-50 of their value, and
\* are equal when rain_density is 0 or 1.
C5_LinearUpToRounding ==
    (PhysicalCall /\ ModerateCall) =>
        /\ Close(ret, Scaled(speed_ft_s, distance_ft, rain_density), 50,
                 Scaled(speed_ft_s, distance_ft, rain_density))
        /\ (IsZero(rain_density) \/ Eq(rain_density, I(1)))
           => Eq(ret, Scaled(speed_ft_s, distance_ft, rain_density))

C5_Witness ==
    /\ PhysicalCall
    /\ pc = "returned"
    /\ speed_ft_s = Lit1(33)
    /\ Defaults
    /\ ~Eq(ret, Scaled(speed_ft_s, distance_ft, rain_density))
    /\ Close(ret, Scaled(speed_ft_s, distance_ft, rain_density), 50, ret)

\* an int argument too large to convert to a float
TooLarge(x) == IsInt(x) /\ IsExc(ToFloat(x))

SomeTooLarge ==
    TooLarge(speed_ft_s) \/ TooLarge(distance_ft) \/ TooLarge(rain_density)

\* the call raised exc, nothing caught it, and the process ended in failure
Faulted(exc) == ret = Raise(exc) /\ pc = "exit" /\ status = I(1)

AboveTerm == rain_from_above(speed_ft_s, distance_ft, rain_density)
FrontTerm == rain_from_front(distance_ft, rain_density)

\* simulate_wetness(s1, ...) - simulate_wetness(s2, ...) for the call's s1,
\* and rain_density*(width*depth)*(distance/s1 - distance/s2)
WetnessGap(s2) == FSub(ret, At(s2))

TimeGap(s2) ==
    Mul(Mul(rain_density, Mul(width, depth)),
        FSub(TrueDiv(distance_ft, speed_ft_s), TrueDiv(distance_ft, s2)))

\* the greater of |x| and |y|
MagMax(x, y) ==
    IF IsZero(x) THEN y
    ELSE IF IsZero(y) THEN x
    ELSE IF MagCmp(x, y) >= 0 THEN x ELSE y

\* the greatest magnitude among the terms of the calls at s1 and s2
TermMax(s2) ==
    MagMax(MagMax(AboveTerm, rain_from_above(s2, distance_ft, rain_density)),
           FrontTerm)

\* a call with a nonzero speed has returned; s2 is another nonzero speed
\* with which the call returns
NonZeroCall == Returned /\ NonZero(speed_ft_s)
OtherSpeed(s2) == NonZero(s2) /\ ~IsExc(At(s2))

\* C9 as stated: for a fixed distance and rain_density the front term
\* rain_density*height*width*distance is the same for any two nonzero speeds
\* s1 and s2, so simulate_wetness(s1) - simulate_wetness(s2) equals
\* rain_density*(width*depth)*(distance/s1 - distance/s2); and for speed > 0,
\* distance >= 0 and rain_density >= 0 the result is never below the front
\* term.
C9_Original ==
    /\ NonZeroCall =>
          /\ FrontTerm = Mul(Mul(rain_density, Mul(height, width)), distance_ft)
          /\ \A s2 \in Speeds :
                OtherSpeed(s2) => Eq(WetnessGap(s2), TimeGap(s2))
    /\ PhysicalCall => Ge(ret, FrontTerm)

\* C9: the front term rain_density*(height*width)*distance does not depend
\* on the speed; for two nonzero speeds s1 and s2, a distance and a
\* rain_density that are each zero or of a magnitude between 2^-100 and
\* 2^100, simulate_wetness(s1) - simulate_wetness(s2) and
\* rain_density*(width*depth)*(distance/s1 - distance/s2) agree up to
\* rounding: they differ by at most 2^-48 of the largest term of the two
\* calls; and for speed > 0, distance >= 0 and rain_density >= 0 the result
\* is never below the front term unless it is NaN.
C9_FrontTermFixed ==
    /\ NonZeroCall =>
          FrontTerm = Mul(Mul(rain_density, Mul(height, width)), distance_ft)
    /\ (NonZeroCall /\ ModerateCall) =>
          \A s2 \in Speeds :
              (Moderate(s2) /\ NonZero(s2)) =>
                  Close(WetnessGap(s2), TimeGap(s2), 48, TermMax(s2))
    /\ (PhysicalCall /\ ~IsNaN(ret)) => Ge(ret, FrontTerm)

C9_Witness ==
    /\ NonZeroCall
    /\ OtherSpeed(Lit1(55))
    /\ pc = "returned"
    /\ speed_ft_s = Lit1(33)
    /\ Defaults
    /\ ~Eq(WetnessGap(Lit1(55)), TimeGap(Lit1(55)))
    /\ Close(WetnessGap(Lit1(55)), TimeGap(Lit1(55)), 48, TermMax(Lit1(55)))
    /\ Gt(ret, FrontTerm)

\* speed < 0 with distance > 0 and rain_density > 0
NegativeCall ==
    /\ Called
    /\ Negative(speed_ft_s)
    /\ Positive(distance_ft)
    /\ Positive(rain_density)

\* |x| * 70 * 2^48, and 12 * (2^48 + k) for k = -1, 1
Times70(x) == [m |-> BMul(x.m, BFromNat(70)), e |-> x.e + 48]

Margin12(k) ==
    [m |-> IF k < 0 THEN BSub(BShl(BFromNat(12), 48), BFromNat(12))
                    ELSE BAdd(BShl(BFromNat(12), 48), BFromNat(12)),
     e |-> 0]

\* |x| <= 12/70 * (1 - 2^-48), and |x| >= 12/70 * (1 + 2^-48)
WellBelow(x) == MagCmp(Times70(x), Margin12(-1)) <= 0
WellAbove(x) == MagCmp(Times70(x), Margin12(1)) >= 0

=============================================================================
